---- MODULE Spec2Model ----
(***************************************************************************)
(* Model of the incentive recommender: the cleaning and feature pipeline   *)
(* (incentive_model/data_pipeline.py), the trainer (incentive_model/       *)
(* train.py) and the serving process (incentive_model/api.py).             *)
(*                                                                         *)
(* Three specifications share the variables:                               *)
(*   SpecServe  the serving process: startup, health and recommend         *)
(*   SpecClean  clean_data, statement by statement, then on its own output *)
(*   SpecTrain  train_and_evaluate, statement by statement                 *)
(***************************************************************************)
EXTENDS Integers, Sequences, FiniteSets, TLC

VARIABLES
    \* ---- serving process (api.py)
    artifact,       \* the file at MODEL_PATH: NoFile or a bundle
    server,         \* "starting", "serving" or "failed"
    app_state,      \* app.state: Unset or [pipeline, feature_columns]
    reqs,           \* the requests in flight, one per worker thread
    \* ---- clean_data (data_pipeline.py)
    incentive_df, property_df, behavior_df,   \* the three local tables
    cpc,            \* position inside clean_data
    validated,      \* names of the tables _validate_columns has passed
    touched,        \* TRUE once any table has been deduplicated, trimmed or filled
    cerror,         \* the ValueError raised, or NoError
    calls,          \* number of clean_data calls started
    call_in,        \* the three tables the current call was given
    \* ---- train_and_evaluate (train.py)
    tpc,            \* position inside train_and_evaluate
    dataset,        \* PipelineData returned by create_training_dataset
    split,          \* test_size and the [train_rows, test_rows] of train_test_split
    files,          \* the files written under output_dir
    terror          \* the exception that ended the run, or NoError

servevars == <<artifact, server, app_state, reqs>>
cleanvars == <<incentive_df, property_df, behavior_df, cpc, validated, touched,
               cerror, calls, call_in>>
trainvars == <<tpc, dataset, split, files, terror>>
vars == <<servevars, cleanvars, trainvars>>

(***************************************************************************)
(* Small helpers.                                                          *)
(***************************************************************************)
Range(s) == {s[i] : i \in 1..Len(s)}

RECURSIVE SeqFilter(_, _)
\* [x for x in s if x \in keep], order kept
SeqFilter(s, keep) ==
    IF s = <<>> THEN <<>>
    ELSE IF Head(s) \in keep THEN <<Head(s)>> \o SeqFilter(Tail(s), keep)
         ELSE SeqFilter(Tail(s), keep)

EmptyMap == [k \in {} |-> 0]

(***************************************************************************)
(* Serving process: incentive_model/api.py                                 *)
(***************************************************************************)
MaxRequests == 2

\* request bodies: RecommendationRequest.features, a dict. The keys range over
\* the subsets of a, b, c, with and without the extra key x, under two
\* assignments of values.
Ascending == [k \in {"a", "b", "c", "x"} |-> CASE k = "a" -> 1 [] k = "b" -> 2
                                               [] k = "c" -> 3 [] k = "x" -> 4]
Swapped == [k \in {"a", "b", "c", "x"} |-> CASE k = "a" -> 2 [] k = "b" -> 1
                                             [] k = "c" -> 1 [] k = "x" -> 3]
FeatureMaps ==
    {[k \in K |-> Ascending[k]] : K \in SUBSET {"a", "b", "c"}}
    \cup {[k \in K |-> Ascending[k]] : K \in {{"a", "b", "c", "x"}, {"a", "b", "x"}, {"x"}}}
    \cup {[k \in K |-> Swapped[k]] : K \in {{"a", "b"}, {"a", "b", "c"}, {"a", "b", "x"}}}

\* the fitted pipelines a bundle may hold; a pipeline is opaque to the service
\* apart from predict, predict_proba (optional) and classes_
Pipelines ==
    { [id |-> 0, classes |-> <<"A", "B">>, has_proba |-> TRUE],
      [id |-> 1, classes |-> <<"A", "B">>, has_proba |-> FALSE] }

\* the feature-column lists a bundle may hold
ColumnLists == { <<>>, <<"a", "b">>, <<"b", "a">>, <<"a", "b", "c">>, <<"c", "a", "b">> }

NoFile == [exists |-> FALSE, pipeline |-> [id |-> 0, classes |-> <<>>, has_proba |-> FALSE],
           feature_columns |-> <<>>]
Bundles == { [exists |-> TRUE, pipeline |-> p, feature_columns |-> f] :
             p \in Pipelines, f \in ColumnLists }

Unset == [set |-> FALSE, pipeline |-> NoFile.pipeline, feature_columns |-> <<>>]

NoResponse == [label |-> "", probs |-> <<>>]
IdleReq == [pc |-> "idle", kind |-> "", features |-> EmptyMap, input_df |-> <<>>,
            columns |-> <<>>, status |-> 0, detail |-> <<>>, body |-> NoResponse]

RECURSIVE Weighted(_, _)
Weighted(row, i) == IF i > Len(row) THEN 0 ELSE i * row[i] + Weighted(row, i + 1)

\* pipeline.predict(input_df)[0]: a deterministic function of the fitted
\* pipeline and of the row, column order included
Predict(pipeline, row) ==
    pipeline.classes[((Weighted(row, 1) + pipeline.id) % Len(pipeline.classes)) + 1]

\* pipeline.predict_proba(input_df)[0] zipped with classes_, in percent
PredictProba(pipeline, row) ==
    [i \in 1..Len(pipeline.classes) |->
        <<pipeline.classes[i], IF pipeline.classes[i] = Predict(pipeline, row) THEN 75 ELSE 25>>]

\* variant of MissingFeatures that loses the last missing name
MissingFeaturesDropsLast(feature_columns, features) ==
    LET m == SeqFilter(feature_columns, Range(feature_columns) \ DOMAIN features)
    IN  IF m = <<>> THEN m ELSE SubSeq(m, 1, Len(m) - 1)

\* api.py:40  [col for col in feature_columns if col not in req.features]
MissingFeatures(feature_columns, features) ==
    SeqFilter(feature_columns, Range(feature_columns) \ DOMAIN features)

\* variant of InputRow without the column selection: every key of the dict
InputRowAllKeys(features, feature_columns) ==
    LET keys == SeqFilter(<<"a", "b", "c", "x">>, DOMAIN features)
    IN  [i \in 1..Len(keys) |-> features[keys[i]]]

\* api.py:47  pd.DataFrame([req.features])[feature_columns]: the one row, as the
\* sequence of its values in the order of feature_columns
InputRow(features, feature_columns) ==
    [i \in 1..Len(feature_columns) |-> features[feature_columns[i]]]

\* api.py:47  the column labels of input_df
InputColumns(features, feature_columns) == feature_columns

\* variant of Accepts in which requests are routed before startup has run
AcceptsAlways == TRUE

\* the @app.on_event("startup") contract (api.py:21): handlers run only once
\* startup has completed
Accepts == server = "serving"

\* api.py:21-28  load_model
LoadModel ==
    /\ server = "starting"
    /\ IF ~artifact.exists
       THEN /\ server' = "failed"          \* RuntimeError: the process exits
            /\ UNCHANGED app_state
       ELSE /\ app_state' = [set |-> TRUE, pipeline |-> artifact.pipeline,
                             feature_columns |-> artifact.feature_columns]
            /\ server' = "serving"
    /\ UNCHANGED <<artifact, reqs>>
    /\ UNCHANGED <<cleanvars, trainvars>>

\* a request is routed to a free worker thread
Receive(r) ==
    /\ Accepts
    /\ reqs[r].pc = "idle"
    /\ \E kind \in {"recommend", "health"} :
       \E f \in FeatureMaps :
          /\ kind = "health" => f = EmptyMap
          /\ reqs' = [reqs EXCEPT ![r] = [IdleReq EXCEPT !.pc = "handle",
                                                       !.kind = kind,
                                                       !.features = f]]
    /\ UNCHANGED <<artifact, server, app_state>>
    /\ UNCHANGED <<cleanvars, trainvars>>

\* api.py:31-33  health
Health(r) ==
    /\ reqs[r].pc = "handle"
    /\ reqs[r].kind = "health"
    /\ reqs' = [reqs EXCEPT ![r].pc = "done", ![r].status = 200,
                            ![r].body = [label |-> "ok", probs |-> <<>>]]
    /\ UNCHANGED <<artifact, server, app_state>>
    /\ UNCHANGED <<cleanvars, trainvars>>

\* api.py:36-45  recommend: read the frozen list, reject when a name is missing
RecommendValidate(r) ==
    /\ reqs[r].pc = "handle"
    /\ reqs[r].kind = "recommend"
    /\ IF ~app_state.set
       THEN reqs' = [reqs EXCEPT ![r].pc = "done", ![r].status = 500]  \* AttributeError
       ELSE LET feature_columns == app_state.feature_columns
                missing_features == MissingFeatures(feature_columns, reqs[r].features)
            IN  IF missing_features # <<>>
                THEN reqs' = [reqs EXCEPT ![r].pc = "done", ![r].status = 400,
                                          ![r].detail = missing_features]
                ELSE reqs' = [reqs EXCEPT ![r].pc = "build",
                                          ![r].columns = feature_columns]
    /\ UNCHANGED <<artifact, server, app_state>>
    /\ UNCHANGED <<cleanvars, trainvars>>

\* api.py:47-48  recommend: the one-row table, then the pipeline is read
RecommendBuild(r) ==
    /\ reqs[r].pc = "build"
    /\ reqs' = [reqs EXCEPT ![r].pc = "predict",
                            ![r].input_df = InputRow(reqs[r].features, reqs[r].columns),
                            ![r].columns = InputColumns(reqs[r].features, reqs[r].columns)]
    /\ UNCHANGED <<artifact, server, app_state>>
    /\ UNCHANGED <<cleanvars, trainvars>>

\* api.py:48-61  recommend: predict, optional probabilities, response
RecommendPredict(r) ==
    /\ reqs[r].pc = "predict"
    /\ LET pipeline == app_state.pipeline
           prediction == Predict(pipeline, reqs[r].input_df)
       IN  reqs' = [reqs EXCEPT ![r].pc = "done", ![r].status = 200,
                       ![r].body = [label |-> prediction,
                                    probs |-> IF pipeline.has_proba
                                              THEN PredictProba(pipeline, reqs[r].input_df)
                                              ELSE <<>>]]
    /\ UNCHANGED <<artifact, server, app_state>>
    /\ UNCHANGED <<cleanvars, trainvars>>

\* the response has been sent; the worker thread is free again
Respond(r) ==
    /\ reqs[r].pc = "done"
    /\ reqs' = [reqs EXCEPT ![r] = IdleReq]
    /\ UNCHANGED <<artifact, server, app_state>>
    /\ UNCHANGED <<cleanvars, trainvars>>

(***************************************************************************)
(* Cells, strings and numbers of a table.                                  *)
(*                                                                         *)
(* A cell is a number n/d (reduced, d > 0), a string (a sequence of        *)
(* characters) or NaN. A table has an ordered list of column labels, a     *)
(* dtype per column ("int", "float" or "obj") and a sequence of rows, each *)
(* a sequence of cells parallel to the columns.                            *)
(***************************************************************************)
NaN == [k |-> "nan", n |-> 0, d |-> 1, s |-> <<>>]
Rat(n, d) == [k |-> "num", n |-> n, d |-> d, s |-> <<>>]
Num(n) == Rat(n, 1)
Str(s) == [k |-> "str", n |-> 0, d |-> 1, s |-> s]

IsNaN(c) == c.k = "nan"

RECURSIVE GCD(_, _)
GCD(a, b) == IF b = 0 THEN a ELSE GCD(b, a % b)

Norm(n, d) == LET g == GCD(n, d) IN IF g = 0 THEN Rat(0, 1) ELSE Rat(n \div g, d \div g)
RAdd(x, y) == Norm(x.n * y.d + y.n * x.d, x.d * y.d)
RDivInt(x, m) == Norm(x.n, x.d * m)
RLess(x, y) == x.n * y.d < y.n * x.d

\* the characters of the model, in code-point order
Chars == <<" ", ".", "0", "1", "2", "3", "4", "5", "6", "7", "8", "9",
           "A", "B", "_", "a", "k", "n", "o", "u", "w">>
CharRank(c) == CHOOSE i \in 1..Len(Chars) : Chars[i] = c

RECURSIVE StrLess(_, _)
\* Python's < on strings
StrLess(s, t) ==
    IF t = <<>> THEN FALSE
    ELSE IF s = <<>> THEN TRUE
    ELSE IF Head(s) = Head(t) THEN StrLess(Tail(s), Tail(t))
    ELSE CharRank(Head(s)) < CharRank(Head(t))

RECURSIVE LStrip(_)
LStrip(s) == IF s # <<>> /\ Head(s) = " " THEN LStrip(Tail(s)) ELSE s

RECURSIVE RStrip(_)
RStrip(s) == IF s # <<>> /\ s[Len(s)] = " " THEN RStrip(SubSeq(s, 1, Len(s) - 1)) ELSE s

\* str.strip()
Strip(s) == RStrip(LStrip(s))

\* every column label of the model, in sorted() order
ColumnOrder == <<"avg_program_incentive_amount", "engagement_score",
                 "ideal_incentive_program", "incentive_amount", "incentive_program",
                 "owner_id", "owner_property_interaction", "property_id", "region",
                 "size">>

\* sorted(S) for a set of column labels
Sorted(S) == SeqFilter(ColumnOrder, S)

ColIndex(t, name) == CHOOSE i \in 1..Len(t.columns) : t.columns[i] = name
Column(t, i) == [r \in 1..Len(t.rows) |-> t.rows[r][i]]
IsNumeric(dt) == dt \in {"int", "float"}

(***************************************************************************)
(* incentive_model/data_pipeline.py                                        *)
(***************************************************************************)
REQUIRED_INCENTIVE_COLUMNS == {"incentive_program", "incentive_amount"}
REQUIRED_PROPERTY_COLUMNS == {"property_id", "owner_id"}
REQUIRED_BEHAVIOR_COLUMNS == {"owner_id", "property_id", "engagement_score",
                              "ideal_incentive_program"}

NoError == [kind |-> "", name |-> "", missing |-> <<>>]

\* variant of ValidateColumns that reports the first missing column only
ValidateColumnsFirstOnly(df, required, name) ==
    LET missing == required \ Range(df.columns)
    IN  IF missing # {}
        THEN [kind |-> "ValueError", name |-> name, missing |-> <<Sorted(missing)[1]>>]
        ELSE NoError

\* data_pipeline.py:21-24  _validate_columns: the error raised, or NoError
ValidateColumns(df, required, name) ==
    LET missing == required \ Range(df.columns)
    IN  IF missing # {}
        THEN [kind |-> "ValueError", name |-> name, missing |-> Sorted(missing)]
        ELSE NoError

RECURSIVE DedupRows(_, _)
DedupRows(rows, seen) ==
    IF rows = <<>> THEN <<>>
    ELSE IF Head(rows) \in seen THEN DedupRows(Tail(rows), seen)
         ELSE <<Head(rows)>> \o DedupRows(Tail(rows), seen \cup {Head(rows)})

\* data_pipeline.py:42  df.drop_duplicates(inplace=True): first occurrences kept
DropDuplicates(df) == [df EXCEPT !.rows = DedupRows(df.rows, {})]

\* data_pipeline.py:45-52  df[col] = df[col].str.strip() on the object columns
StripTable(df) ==
    [df EXCEPT !.rows =
        [r \in 1..Len(df.rows) |->
            [i \in 1..Len(df.columns) |->
                LET c == df.rows[r][i]
                IN  IF df.dtype[i] = "obj" /\ c.k = "str" THEN Str(Strip(c.s)) ELSE c]]]

\* < on two numbers or on two strings
CellLess(x, y) == IF x.k = "num" THEN RLess(x, y) ELSE StrLess(x.s, y.s)

RECURSIVE SortCells(_)
\* the cells of a sequence (all numbers or all strings) in ascending order
SortCells(cells) ==
    IF cells = <<>> THEN <<>>
    ELSE LET i == CHOOSE i \in 1..Len(cells) :
                     \A j \in 1..Len(cells) : ~CellLess(cells[j], cells[i])
             rest == [j \in 1..(Len(cells) - 1) |-> IF j < i THEN cells[j] ELSE cells[j + 1]]
         IN  <<cells[i]>> \o SortCells(rest)

RECURSIVE DropNaN(_)
DropNaN(cells) ==
    IF cells = <<>> THEN <<>>
    ELSE IF IsNaN(Head(cells)) THEN DropNaN(Tail(cells))
         ELSE <<Head(cells)>> \o DropNaN(Tail(cells))

\* Series.median(): NaN skipped; NaN when nothing is left
Median(cells) ==
    LET v == SortCells(DropNaN(cells))
        m == Len(v)
    IN  IF m = 0 THEN NaN
        ELSE IF m % 2 = 1 THEN v[(m + 1) \div 2]
        ELSE RDivInt(RAdd(v[m \div 2], v[(m \div 2) + 1]), 2)

Count(cells, c) == Cardinality({i \in 1..Len(cells) : cells[i] = c})

\* Series.mode(): the most frequent non-missing values, sorted
Mode(cells) ==
    LET v == DropNaN(cells)
        best == {c \in Range(v) : \A e \in Range(v) : Count(v, e) <= Count(v, c)}
        asSeq == CHOOSE q \in [1..Cardinality(best) -> best] : Range(q) = best
    IN  SortCells(asSeq)

Unknown == Str(<<"u", "n", "k", "n", "o", "w", "n">>)

\* data_pipeline.py:57-61  the value fillna is given for one column
FillValue(dt, cells) ==
    IF IsNumeric(dt) THEN Median(cells)
    ELSE LET mode_val == Mode(cells)
         IN  IF mode_val # <<>> THEN mode_val[1] ELSE Unknown

\* data_pipeline.py:55-62  fill_missing
FillMissing(df) ==
    [df EXCEPT !.rows =
        [r \in 1..Len(df.rows) |->
            [i \in 1..Len(df.columns) |->
                LET c == df.rows[r][i]
                IN  IF IsNaN(c) THEN FillValue(df.dtype[i], Column(df, i)) ELSE c]]]

\* data_pipeline.py:33  _validate_columns(incentive_df, ...)
ValidateIncentive ==
    /\ cpc = "validate_incentive"
    /\ LET e == ValidateColumns(incentive_df, REQUIRED_INCENTIVE_COLUMNS, "Raw incentive data")
       IN  IF e # NoError
           THEN cerror' = e /\ cpc' = "raised" /\ UNCHANGED validated
           ELSE validated' = validated \cup {"Raw incentive data"}
                /\ cpc' = "validate_property" /\ UNCHANGED cerror
    /\ UNCHANGED <<incentive_df, property_df, behavior_df, touched, calls, call_in>>
    /\ UNCHANGED <<servevars, trainvars>>

\* data_pipeline.py:34  _validate_columns(property_df, ...)
ValidateProperty ==
    /\ cpc = "validate_property"
    /\ LET e == ValidateColumns(property_df, REQUIRED_PROPERTY_COLUMNS, "Raw property data")
       IN  IF e # NoError
           THEN cerror' = e /\ cpc' = "raised" /\ UNCHANGED validated
           ELSE validated' = validated \cup {"Raw property data"}
                /\ cpc' = "validate_behavior" /\ UNCHANGED cerror
    /\ UNCHANGED <<incentive_df, property_df, behavior_df, touched, calls, call_in>>
    /\ UNCHANGED <<servevars, trainvars>>

\* data_pipeline.py:35  _validate_columns(behavior_df, ...)
ValidateBehavior ==
    /\ cpc = "validate_behavior"
    /\ LET e == ValidateColumns(behavior_df, REQUIRED_BEHAVIOR_COLUMNS, "User behavior data")
       IN  IF e # NoError
           THEN cerror' = e /\ cpc' = "raised" /\ UNCHANGED validated
           ELSE validated' = validated \cup {"User behavior data"}
                /\ cpc' = "dedup" /\ UNCHANGED cerror
    /\ UNCHANGED <<incentive_df, property_df, behavior_df, touched, calls, call_in>>
    /\ UNCHANGED <<servevars, trainvars>>

\* data_pipeline.py:37-42  copies, then drop_duplicates on each
DropDuplicatesAll ==
    /\ cpc = "dedup"
    /\ incentive_df' = DropDuplicates(incentive_df)
    /\ property_df' = DropDuplicates(property_df)
    /\ behavior_df' = DropDuplicates(behavior_df)
    /\ touched' = TRUE
    /\ cpc' = "strip"
    /\ UNCHANGED <<validated, cerror, calls, call_in>>
    /\ UNCHANGED <<servevars, trainvars>>

\* data_pipeline.py:45-52  the three strip loops
StripAll ==
    /\ cpc = "strip"
    /\ incentive_df' = StripTable(incentive_df)
    /\ property_df' = StripTable(property_df)
    /\ behavior_df' = StripTable(behavior_df)
    /\ touched' = TRUE
    /\ cpc' = "fill"
    /\ UNCHANGED <<validated, cerror, calls, call_in>>
    /\ UNCHANGED <<servevars, trainvars>>

\* data_pipeline.py:64  return fill_missing(...), fill_missing(...), fill_missing(...)
FillAndReturn ==
    /\ cpc = "fill"
    /\ incentive_df' = FillMissing(incentive_df)
    /\ property_df' = FillMissing(property_df)
    /\ behavior_df' = FillMissing(behavior_df)
    /\ touched' = TRUE
    /\ cpc' = "returned"
    /\ UNCHANGED <<validated, cerror, calls, call_in>>
    /\ UNCHANGED <<servevars, trainvars>>

MaxCalls == 2

\* the caller hands the three returned tables to clean_data again
CleanAgain ==
    /\ cpc = "returned"
    /\ calls < MaxCalls
    /\ calls' = calls + 1
    /\ call_in' = <<incentive_df, property_df, behavior_df>>
    /\ cpc' = "validate_incentive"
    /\ validated' = {}
    /\ touched' = FALSE
    /\ UNCHANGED <<incentive_df, property_df, behavior_df, cerror>>
    /\ UNCHANGED <<servevars, trainvars>>

\* data_pipeline.py:27-64  clean_data as one function: the error or the tables
CleanData(i, p, b) ==
    LET e1 == ValidateColumns(i, REQUIRED_INCENTIVE_COLUMNS, "Raw incentive data")
        e2 == ValidateColumns(p, REQUIRED_PROPERTY_COLUMNS, "Raw property data")
        e3 == ValidateColumns(b, REQUIRED_BEHAVIOR_COLUMNS, "User behavior data")
        err == IF e1 # NoError THEN e1 ELSE IF e2 # NoError THEN e2 ELSE e3
    IN  IF err # NoError
        THEN [error |-> err, tables |-> <<>>]
        ELSE [error |-> NoError,
              tables |-> << FillMissing(StripTable(DropDuplicates(i))),
                            FillMissing(StripTable(DropDuplicates(p))),
                            FillMissing(StripTable(DropDuplicates(b))) >>]

RECURSIVE SumCells(_)
SumCells(cells) == IF cells = <<>> THEN Rat(0, 1) ELSE RAdd(Head(cells), SumCells(Tail(cells)))

\* Series.mean(): NaN skipped; NaN when nothing is left
Mean(cells) ==
    LET v == DropNaN(cells)
    IN  IF v = <<>> THEN NaN ELSE RDivInt(SumCells(v), Len(v))

RECURSIVE SelectRows(_, _, _)
\* the rows whose cell in column i is c, order kept
SelectRows(rows, i, c) ==
    IF rows = <<>> THEN <<>>
    ELSE IF Head(rows)[i] = c THEN <<Head(rows)>> \o SelectRows(Tail(rows), i, c)
         ELSE SelectRows(Tail(rows), i, c)

\* data_pipeline.py:73-77  groupby("incentive_program", as_index=False)
\* ["incentive_amount"].mean(), renamed: one row per program, programs sorted
IncentivesByProgram(inc_df) ==
    LET pi == ColIndex(inc_df, "incentive_program")
        ai == ColIndex(inc_df, "incentive_amount")
        progs == Range(DropNaN(Column(inc_df, pi)))
        asSeq == CHOOSE q \in [1..Cardinality(progs) -> progs] : Range(q) = progs
        keys == SortCells(asSeq)
    IN  [columns |-> <<"incentive_program", "avg_program_incentive_amount">>,
         dtype |-> <<"obj", "float">>,
         rows |-> [g \in 1..Len(keys) |->
                     LET grp == SelectRows(inc_df.rows, pi, keys[g])
                     IN  <<keys[g], Mean([r \in 1..Len(grp) |-> grp[r][ai]])>>]]

RECURSIVE MatchRows(_, _, _, _)
\* the rows of the right table whose key cells equal those of the left row
MatchRows(lrow, rrows, lkeys, rkeys) ==
    IF rrows = <<>> THEN <<>>
    ELSE IF \A k \in 1..Len(lkeys) : lrow[lkeys[k]] = Head(rrows)[rkeys[k]]
         THEN <<Head(rrows)>> \o MatchRows(lrow, Tail(rrows), lkeys, rkeys)
         ELSE MatchRows(lrow, Tail(rrows), lkeys, rkeys)

RECURSIVE JoinRows(_, _, _, _, _)
\* how="left": each left row with each of its matches in turn, or once with
\* missing values when it has none
JoinRows(lrows, rrows, lkeys, rkeys, keep) ==
    IF lrows = <<>> THEN <<>>
    ELSE LET ms == MatchRows(Head(lrows), rrows, lkeys, rkeys)
             here == IF ms = <<>>
                     THEN << Head(lrows) \o [i \in 1..Len(keep) |-> NaN] >>
                     ELSE [m \in 1..Len(ms) |->
                             Head(lrows) \o [i \in 1..Len(keep) |-> ms[m][keep[i]]]]
         IN  here \o JoinRows(Tail(lrows), rrows, lkeys, rkeys, keep)

\* DataFrame.merge(right, how="left"): the left columns, then the right
\* columns listed in keep (indices into right.columns)
LeftMerge(left, right, lkeys, rkeys, keep) ==
    LET rows == JoinRows(left.rows, right.rows, lkeys, rkeys, keep)
        n == Len(left.columns)
    IN  [columns |-> left.columns \o [i \in 1..Len(keep) |-> right.columns[keep[i]]],
         dtype |-> left.dtype \o
                   [i \in 1..Len(keep) |->
                      IF right.dtype[keep[i]] = "int"
                         /\ \E r \in 1..Len(rows) : IsNaN(rows[r][n + i])
                      THEN "float" ELSE right.dtype[keep[i]]],
         rows |-> rows]

RECURSIVE Digits(_)
Digits(n) == IF n < 10 THEN <<Chars[n + 3]>> ELSE Digits(n \div 10) \o <<Chars[(n % 10) + 3]>>

\* Series.astype(str) on one cell of an id column
AsStr(dt, c) ==
    IF c.k = "str" THEN c.s
    ELSE IF IsNaN(c) THEN <<"n", "a", "n">>
    ELSE IF dt = "int" THEN Digits(c.n)
    ELSE Digits(c.n \div c.d) \o <<".">> \o Digits(((c.n % c.d) * 10) \div c.d)

\* the indices of the columns of df whose label is not in names, in order
OtherColumns(df, names) ==
    SeqFilter([i \in 1..Len(df.columns) |-> i],
              {i \in 1..Len(df.columns) : df.columns[i] \notin names})

\* data_pipeline.py:79  behavior_df.merge(property_df, on=["owner_id", "property_id"],
\* how="left")
MergeProperty(beh_df, prop_df) ==
    LeftMerge(beh_df, prop_df,
              <<ColIndex(beh_df, "owner_id"), ColIndex(beh_df, "property_id")>>,
              <<ColIndex(prop_df, "owner_id"), ColIndex(prop_df, "property_id")>>,
              OtherColumns(prop_df, {"owner_id", "property_id"}))

\* data_pipeline.py:80-85  merged.merge(incentives_by_program,
\* left_on="ideal_incentive_program", right_on="incentive_program", how="left")
MergeIncentives(merged, incentives_by_program) ==
    LeftMerge(merged, incentives_by_program,
              <<ColIndex(merged, "ideal_incentive_program")>>, <<1>>, <<1, 2>>)

\* data_pipeline.py:87-89  fillna of avg_program_incentive_amount with the
\* median of the per-program means
FillAverage(merged, incentives_by_program) ==
    LET ai == ColIndex(merged, "avg_program_incentive_amount")
        med == Median(Column(incentives_by_program, 2))
    IN  [merged EXCEPT !.rows =
            [r \in 1..Len(merged.rows) |->
                [merged.rows[r] EXCEPT ![ai] = IF IsNaN(@) THEN med ELSE @]]]

\* data_pipeline.py:91  owner_property_interaction
AddInteraction(merged) ==
    LET oi == ColIndex(merged, "owner_id")
        qi == ColIndex(merged, "property_id")
    IN  [columns |-> Append(merged.columns, "owner_property_interaction"),
         dtype |-> Append(merged.dtype, "obj"),
         rows |-> [r \in 1..Len(merged.rows) |->
                     Append(merged.rows[r],
                            Str(AsStr(merged.dtype[oi], merged.rows[r][oi]) \o <<"_">>
                                \o AsStr(merged.dtype[qi], merged.rows[r][qi])))]]

\* data_pipeline.py:93-94  merged.drop(columns=["incentive_program"])
DropColumns(df, names) ==
    LET keep == OtherColumns(df, names)
    IN  [columns |-> [i \in 1..Len(keep) |-> df.columns[keep[i]]],
         dtype |-> [i \in 1..Len(keep) |-> df.dtype[keep[i]]],
         rows |-> [r \in 1..Len(df.rows) |-> [i \in 1..Len(keep) |-> df.rows[r][keep[i]]]]]

\* data_pipeline.py:96  [c for c in training_df.columns if c != "ideal_incentive_program"]
FeatureColumns(training_df) ==
    SeqFilter(training_df.columns, Range(training_df.columns) \ {"ideal_incentive_program"})

\* data_pipeline.py:97  PipelineData(training_df, feature_columns)
PipelineData(training_df) ==
    [training_df |-> training_df,
     feature_columns |-> FeatureColumns(training_df),
     target_column |-> "ideal_incentive_program"]

\* data_pipeline.py:67-97  feature_engineering
FeatureEngineering(inc_df, prop_df, beh_df) ==
    LET incentives_by_program == IncentivesByProgram(inc_df)
    IN  PipelineData(
            DropColumns(
                AddInteraction(
                    FillAverage(
                        MergeIncentives(MergeProperty(beh_df, prop_df), incentives_by_program),
                        incentives_by_program)),
                {"incentive_program"}))

\* data_pipeline.py:100-106  create_training_dataset: the error or the dataset
CreateTrainingDataset(i, p, b) ==
    LET c == CleanData(i, p, b)
    IN  IF c.error # NoError
        THEN [error |-> c.error, data |-> <<>>]
        ELSE [error |-> NoError,
              data |-> <<FeatureEngineering(c.tables[1], c.tables[2], c.tables[3])>>]

(***************************************************************************)
(* The raw tables the model draws its inputs from.                         *)
(***************************************************************************)
MaxRows == 3

SeqsUpTo(S, n) == UNION {[1..m -> S] : m \in 0..n}

\* the kind of values a column holds, by label
ColumnKind(name) ==
    IF name \in {"incentive_program", "ideal_incentive_program", "region"} THEN "obj" ELSE "num"

\* a table as the reader builds it: a numeric column is "float" when it has a
\* missing value and "int" otherwise
MkTable(columns, rows) ==
    [columns |-> columns,
     dtype |-> [i \in 1..Len(columns) |->
                  IF ColumnKind(columns[i]) = "obj" THEN "obj"
                  ELSE IF \E r \in 1..Len(rows) : IsNaN(rows[r][i]) THEN "float" ELSE "int"],
     rows |-> rows]

DefaultCell(name) == IF ColumnKind(name) = "obj" THEN Str(<<"A">>) ELSE Num(1)
OneRow(columns) == MkTable(columns, << [i \in 1..Len(columns) |-> DefaultCell(columns[i])] >>)

ProgramCells == {Str(<<"A">>), Str(<<" ", "A">>), NaN}
AmountCells == {Num(1), Num(3), NaN}

\* incentive tables with up to MaxRows rows, blanks and missing values included
RichIncentiveTables ==
    { MkTable(<<"incentive_program", "incentive_amount">>, rows) :
        rows \in SeqsUpTo({<<p, a>> : p \in ProgramCells, a \in AmountCells}, MaxRows) }

IncentiveShapes == { <<"incentive_program", "incentive_amount">>, <<"incentive_program">>,
                     <<"incentive_amount">>, <<"region">> }
PropertyShapes == { <<"property_id", "owner_id">>, <<"owner_id", "property_id", "region">>,
                    <<"property_id">>, <<"owner_id", "size">>, <<"region">> }
BehaviorShapes == { <<"owner_id", "property_id", "engagement_score", "ideal_incentive_program">>,
                    <<"owner_id", "property_id", "engagement_score">>,
                    <<"property_id", "ideal_incentive_program">>,
                    <<"region">> }

ServeIdle ==
    /\ artifact = NoFile
    /\ server = "off"
    /\ app_state = Unset
    /\ reqs = [r \in 1..MaxRequests |-> IdleReq]

NoDataset == [training_df |-> MkTable(<<>>, <<>>), feature_columns |-> <<>>,
              target_column |-> "ideal_incentive_program"]

TrainIdle ==
    /\ tpc = "off"
    /\ dataset = NoDataset
    /\ split = [test_size |-> <<1, 5>>, train_rows |-> 0, test_rows |-> 0]
    /\ files = {}
    /\ terror = NoError

InitClean ==
    /\ \/ /\ incentive_df \in RichIncentiveTables
          /\ property_df = OneRow(<<"property_id", "owner_id">>)
          /\ behavior_df = OneRow(<<"owner_id", "property_id", "engagement_score",
                                    "ideal_incentive_program">>)
       \/ /\ incentive_df \in {OneRow(c) : c \in IncentiveShapes}
          /\ property_df \in {OneRow(c) : c \in PropertyShapes}
          /\ behavior_df \in {OneRow(c) : c \in BehaviorShapes}
    /\ cpc = "validate_incentive"
    /\ validated = {}
    /\ touched = FALSE
    /\ cerror = NoError
    /\ calls = 1
    /\ call_in = <<incentive_df, property_df, behavior_df>>
    /\ ServeIdle
    /\ TrainIdle

NextClean ==
    \/ ValidateIncentive
    \/ ValidateProperty
    \/ ValidateBehavior
    \/ DropDuplicatesAll
    \/ StripAll
    \/ FillAndReturn
    \/ CleanAgain

SpecClean == InitClean /\ [][NextClean]_vars

CleanIdle ==
    /\ incentive_df = MkTable(<<>>, <<>>)
    /\ property_df = MkTable(<<>>, <<>>)
    /\ behavior_df = MkTable(<<>>, <<>>)
    /\ cpc = "off"
    /\ validated = {}
    /\ touched = FALSE
    /\ cerror = NoError
    /\ calls = 0
    /\ call_in = <<>>

(***************************************************************************)
(* incentive_model/train.py                                                *)
(***************************************************************************)
DistinctCount(cells) == Cardinality(Range(cells))

\* train.py:57-59  train_test_split(X, y, test_size, random_state=42, stratify=y):
\* the sizes of the two parts, or the ValueError of the splitter. n is the
\* number of rows, y the target column, ts the test fraction <<num, den>>.
TrainTestSplit(n, y, ts) ==
    LET n_test == ((ts[1] * n) + ts[2] - 1) \div ts[2]
        n_train == n - n_test
        n_classes == DistinctCount(y)
        least == IF n_classes = 0 THEN 0
                 ELSE CHOOSE m \in 1..n : /\ \E c \in Range(y) : Count(y, c) = m
                                          /\ \A c \in Range(y) : Count(y, c) >= m
        fails == \/ n_train = 0
                 \/ least < 2
                 \/ n_train < n_classes
                 \/ n_test < n_classes
    IN  [error |-> fails,
         train_rows |-> IF fails THEN 0 ELSE n_train,
         test_rows |-> IF fails THEN 0 ELSE n_test]

HasNaN(df) == \E r \in 1..Len(df.rows) : \E i \in 1..Len(df.columns) : IsNaN(df.rows[r][i])

\* train.py:47-52  read the three files, create_training_dataset
CreateDataset ==
    /\ tpc = "read"
    /\ LET d == CreateTrainingDataset(incentive_df, property_df, behavior_df)
       IN  IF d.error # NoError
           THEN terror' = d.error /\ tpc' = "error" /\ UNCHANGED dataset
           ELSE dataset' = d.data[1] /\ tpc' = "split" /\ UNCHANGED terror
    /\ UNCHANGED <<split, files>>
    /\ UNCHANGED <<servevars, cleanvars>>

\* train.py:54-59  X, y and the stratified split
Split ==
    /\ tpc = "split"
    /\ LET df == dataset.training_df
           y == Column(df, ColIndex(df, dataset.target_column))
           res == TrainTestSplit(Len(df.rows), y, split.test_size)
       IN  IF res.error
           THEN /\ terror' = [kind |-> "ValueError", name |-> "train_test_split",
                              missing |-> <<>>]
                /\ tpc' = "error"
                /\ UNCHANGED split
           ELSE /\ split' = [split EXCEPT !.train_rows = res.train_rows,
                                          !.test_rows = res.test_rows]
                /\ tpc' = "fit"
                /\ UNCHANGED terror
    /\ UNCHANGED <<dataset, files>>
    /\ UNCHANGED <<servevars, cleanvars>>

\* train.py:61-62  build_model(X), pipeline.fit(X_train, y_train). Whether the
\* estimators accept a missing value depends on the library build: with one
\* in X the fit either goes through or raises.
Fit ==
    /\ tpc = "fit"
    /\ \/ tpc' = "evaluate" /\ UNCHANGED terror
       \/ /\ HasNaN(dataset.training_df)
          /\ terror' = [kind |-> "ValueError", name |-> "fit", missing |-> <<>>]
          /\ tpc' = "error"
    /\ UNCHANGED <<dataset, split, files>>
    /\ UNCHANGED <<servevars, cleanvars>>

\* train.py:64-66  predict on the test part, accuracy and report
Evaluate ==
    /\ tpc = "evaluate"
    /\ tpc' = "dump"
    /\ UNCHANGED <<dataset, split, files, terror>>
    /\ UNCHANGED <<servevars, cleanvars>>

\* train.py:68-79  mkdir, joblib.dump of the bundle
Dump ==
    /\ tpc = "dump"
    /\ files' = files \cup {"incentive_recommender.joblib"}
    /\ tpc' = "metrics"
    /\ UNCHANGED <<dataset, split, terror>>
    /\ UNCHANGED <<servevars, cleanvars>>

\* train.py:81-92  metrics.json, the three prints
WriteMetrics ==
    /\ tpc = "metrics"
    /\ files' = files \cup {"metrics.json"}
    /\ tpc' = "done"
    /\ UNCHANGED <<dataset, split, terror>>
    /\ UNCHANGED <<servevars, cleanvars>>

\* the raw tables of a training run
MaxBehaviorRows == 4

TrainIncentiveRows == { <<Str(<<"A">>), Num(1)>>, <<Str(<<"A">>), Num(3)>>,
                        <<Str(<<"B">>), Num(3)>> }
TrainPropertyRows == { <<Num(1), Num(o), Str(g)>> : o \in {1, 2}, g \in {<<"A">>, <<"B">>} }
TrainBehaviorRows == { <<Num(o), Num(1), Num(5), Str(l)>> :
                          o \in {1, 2}, l \in {<<"A">>, <<"B">>} }

IncentiveCols == <<"incentive_program", "incentive_amount">>
PropertyCols == <<"property_id", "owner_id", "region">>
BehaviorCols == <<"owner_id", "property_id", "engagement_score", "ideal_incentive_program">>

\* train.py:45  test_size, default 0.2
TestSizes == { <<1, 5>>, <<1, 2>> }

InitTrain ==
    /\ \/ /\ incentive_df \in {MkTable(IncentiveCols, r) : r \in
                 { << <<Str(<<"A">>), Num(1)>>, <<Str(<<"B">>), Num(3)>> >>,
                   << <<Str(<<"A">>), Num(1)>> >> }}
          /\ property_df \in {MkTable(PropertyCols, r) : r \in
                 { << <<Num(1), Num(1), Str(<<"A">>)>>, <<Num(1), Num(2), Str(<<"B">>)>> >>,
                   << <<Num(1), Num(1), Str(<<"A">>)>> >>,
                   << <<Num(1), Num(1), Str(<<"A">>)>>, <<Num(1), Num(1), Str(<<"B">>)>> >> }}
          /\ behavior_df \in {MkTable(BehaviorCols, r) :
                                 r \in SeqsUpTo(TrainBehaviorRows, MaxBehaviorRows)}
       \/ /\ incentive_df \in {MkTable(IncentiveCols, r) : r \in SeqsUpTo(TrainIncentiveRows, 2)}
          /\ property_df \in {MkTable(PropertyCols, r) : r \in SeqsUpTo(TrainPropertyRows, 2)}
          /\ behavior_df \in {MkTable(BehaviorCols, r) : r \in SeqsUpTo(TrainBehaviorRows, 1)}
       \/ /\ incentive_df \in {OneRow(c) : c \in IncentiveShapes}
          /\ property_df = OneRow(<<"property_id", "owner_id">>)
          /\ behavior_df \in {OneRow(c) : c \in BehaviorShapes}
    /\ cpc = "off"
    /\ validated = {}
    /\ touched = FALSE
    /\ cerror = NoError
    /\ calls = 0
    /\ call_in = <<>>
    /\ tpc = "read"
    /\ dataset = NoDataset
    /\ split \in {[test_size |-> ts, train_rows |-> 0, test_rows |-> 0] : ts \in TestSizes}
    /\ files = {}
    /\ terror = NoError
    /\ ServeIdle

NextTrain ==
    \/ CreateDataset
    \/ Split
    \/ Fit
    \/ Evaluate
    \/ Dump
    \/ WriteMetrics

SpecTrain == InitTrain /\ [][NextTrain]_vars

(***************************************************************************)
(* The serving process.                                                    *)
(***************************************************************************)
InitServe ==
    /\ artifact \in {NoFile} \cup Bundles
    /\ server = "starting"
    /\ app_state = Unset
    /\ reqs = [r \in 1..MaxRequests |-> IdleReq]
    /\ CleanIdle
    /\ TrainIdle

NextServe ==
    \/ LoadModel
    \/ \E r \in 1..MaxRequests : Receive(r)
    \/ \E r \in 1..MaxRequests : Health(r)
    \/ \E r \in 1..MaxRequests : RecommendValidate(r)
    \/ \E r \in 1..MaxRequests : RecommendBuild(r)
    \/ \E r \in 1..MaxRequests : RecommendPredict(r)
    \/ \E r \in 1..MaxRequests : Respond(r)

SpecServe == InitServe /\ [][NextServe]_vars

(***************************************************************************)
(* The whole system: a run is the serving process, a cleaning call or a    *)
(* training run.                                                           *)
(***************************************************************************)
Init == InitServe \/ InitClean \/ InitTrain

Next == NextServe \/ NextClean \/ NextTrain

Spec == Init /\ [][Next]_vars

(***************************************************************************)
(* Properties of the serving process (SpecServe).                          *)
(***************************************************************************)
Workers == 1..MaxRequests
Built(r) == reqs[r].kind = "recommend" /\ (reqs[r].pc = "predict" \/ reqs[r].status = 200)
Absent(F, M) == {c \in Range(F) : c \notin DOMAIN M}

\* C1: a prediction request is rejected with status 400 exactly when some
\* frozen feature column is not a key of its mapping; the rejection lists
\* exactly the absent frozen columns; a mapping whose keys are exactly the
\* frozen columns is never rejected.
C1_RejectedIffMissing ==
    \A r \in Workers :
        (reqs[r].kind = "recommend" /\ app_state.set) =>
            LET F == app_state.feature_columns
                M == reqs[r].features
            IN  /\ reqs[r].pc = "done" => reqs[r].status \in {200, 400}
                /\ reqs[r].status = 400 =>
                      /\ Absent(F, M) # {}
                      /\ Range(reqs[r].detail) = Absent(F, M)
                      /\ Len(reqs[r].detail) = Cardinality(Absent(F, M))
                /\ (reqs[r].pc \in {"build", "predict"} \/ reqs[r].status = 200) =>
                      Absent(F, M) = {}
                /\ DOMAIN M = Range(F) => reqs[r].status # 400

\* C1 witness: the list a, b, c and a request with a and b only is rejected
\* listing c alone.
C1_Witness ==
    \E r \in Workers :
        /\ app_state.feature_columns = <<"a", "b", "c">>
        /\ DOMAIN reqs[r].features = {"a", "b"}
        /\ reqs[r].status = 400
        /\ reqs[r].detail = <<"c">>

\* C2: the row handed to the pipeline has exactly the frozen columns in the
\* frozen order, each value the request's value under that name; requests
\* that agree on the frozen columns hand over the same row, whatever other
\* keys they carry.
C2_RowIsFrozenColumns ==
    /\ \A r \in Workers :
          Built(r) =>
              LET F == app_state.feature_columns
              IN  /\ reqs[r].columns = F
                  /\ Len(reqs[r].input_df) = Len(F)
                  /\ \A i \in 1..Len(F) : reqs[r].input_df[i] = reqs[r].features[F[i]]
    /\ \A r1, r2 \in Workers :
          (/\ Built(r1) /\ Built(r2)
           /\ \A c \in Range(app_state.feature_columns) :
                 reqs[r1].features[c] = reqs[r2].features[c])
          => reqs[r1].input_df = reqs[r2].input_df

\* C2 witness: two accepted requests, one of them with an extra key, under a
\* frozen order that is not the alphabetical one, with the same row built.
C2_Witness ==
    \E r1, r2 \in Workers :
        /\ app_state.feature_columns = <<"b", "a">>
        /\ reqs[r1].pc = "predict" /\ reqs[r2].pc = "predict"
        /\ "x" \in DOMAIN reqs[r1].features
        /\ "x" \notin DOMAIN reqs[r2].features
        /\ reqs[r1].input_df = <<2, 1>>
        /\ reqs[r1].input_df = reqs[r2].input_df

\* what recommend returns for one request handled on its own against a bundle
AloneOutcome(bundle, M) ==
    LET F == bundle.feature_columns
        row == [i \in 1..Len(F) |-> M[F[i]]]
    IN  IF Absent(F, M) # {}
        THEN [status |-> 400, detail |-> SeqFilter(F, Absent(F, M)), body |-> NoResponse]
        ELSE [status |-> 200, detail |-> <<>>,
              body |-> [label |-> Predict(bundle.pipeline, row),
                        probs |-> IF bundle.pipeline.has_proba
                                  THEN PredictProba(bundle.pipeline, row) ELSE <<>>]]

\* C7: app.state holds the bundle of the artifact file from the end of
\* startup on and nothing before; no request is handled before startup has
\* loaded it, and none ever when the file is absent; every finished request
\* has the outcome it would have had alone against the loaded bundle.
C7_BundleReadOnly ==
    /\ server = "serving" =>
          /\ artifact.exists
          /\ app_state = [set |-> TRUE, pipeline |-> artifact.pipeline,
                          feature_columns |-> artifact.feature_columns]
    /\ server # "serving" =>
          /\ app_state = Unset
          /\ \A r \in Workers : reqs[r] = IdleReq
    /\ ~artifact.exists => server \in {"starting", "failed"}
    /\ \A r \in Workers :
          reqs[r].pc = "done" =>
              IF reqs[r].kind = "health"
              THEN reqs[r].status = 200 /\ reqs[r].body.label = "ok"
              ELSE LET o == AloneOutcome(artifact, reqs[r].features)
                   IN  /\ reqs[r].status = o.status
                       /\ reqs[r].detail = o.detail
                       /\ reqs[r].body = o.body

\* C7 witness: a rejected and an answered prediction request finished side by
\* side in the same serving process.
C7_Witness ==
    \E r1, r2 \in Workers :
        /\ server = "serving"
        /\ reqs[r1].kind = "recommend" /\ reqs[r1].status = 400
        /\ reqs[r2].kind = "recommend" /\ reqs[r2].status = 200
        /\ reqs[r2].body.probs # <<>>

(***************************************************************************)
(* Properties of clean_data (SpecClean).                                   *)
(***************************************************************************)
TableNames == {"Raw incentive data", "Raw property data", "User behavior data"}
TableNamed(name) ==
    CASE name = "Raw incentive data" -> incentive_df
      [] name = "Raw property data" -> property_df
      [] name = "User behavior data" -> behavior_df
RequiredOf(name) ==
    CASE name = "Raw incentive data" -> REQUIRED_INCENTIVE_COLUMNS
      [] name = "Raw property data" -> REQUIRED_PROPERTY_COLUMNS
      [] name = "User behavior data" -> REQUIRED_BEHAVIOR_COLUMNS
Rank(name) == CHOOSE i \in 1..Len(ColumnOrder) : ColumnOrder[i] = name
Current == <<incentive_df, property_df, behavior_df>>

\* C3: _validate_columns fails exactly when a required column is absent,
\* naming the table and listing exactly the absent required columns in
\* sorted order; clean_data touches no table before all three have passed.
C3_ValidatorExact ==
    /\ cpc = "raised" =>
          /\ cerror.kind = "ValueError"
          /\ cerror.name \in TableNames
          /\ cerror.missing # <<>>
          /\ Range(cerror.missing) =
                RequiredOf(cerror.name) \ Range(TableNamed(cerror.name).columns)
          /\ \A i, j \in 1..Len(cerror.missing) :
                i < j => Rank(cerror.missing[i]) < Rank(cerror.missing[j])
          /\ ~touched
          /\ Current = call_in
    /\ \A name \in validated : RequiredOf(name) \subseteq Range(TableNamed(name).columns)
    /\ cpc # "raised" => cerror = NoError
    /\ touched => validated = TableNames

\* C3 witness: the behavior table fails third, after the other two have
\* passed, with more than one column listed.
C3_Witness ==
    /\ cpc = "raised"
    /\ cerror.name = "User behavior data"
    /\ Len(cerror.missing) >= 2
    /\ validated = {"Raw incentive data", "Raw property data"}

\* C4: cleaning is idempotent: a call of clean_data on the tables a previous
\* call returned returns them unchanged.
C4_Idempotent ==
    (calls >= 2 /\ cpc = "returned") => Current = call_in

\* what the fill policy of C5 puts in a missing cell of a column
ClaimedFill(dt, cells) ==
    IF IsNumeric(dt)
    THEN IF DropNaN(cells) = <<>> THEN Num(0) ELSE Median(cells)
    ELSE IF DropNaN(cells) = <<>> THEN Unknown ELSE Mode(cells)[1]

\* C5: no table returned by clean_data has a missing value: a missing
\* numeric cell holds the column median (0 when the whole column is missing),
\* a missing non-numeric cell the column mode ("unknown" when there is none).
C5_NoMissingAfterClean ==
    cpc = "returned" =>
        \A t \in 1..3 :
            LET pre == StripTable(DropDuplicates(call_in[t]))
                out == Current[t]
            IN  /\ Len(out.rows) = Len(pre.rows)
                /\ \A r \in 1..Len(out.rows) : \A i \in 1..Len(out.columns) :
                      /\ ~IsNaN(out.rows[r][i])
                      /\ out.rows[r][i] =
                            IF IsNaN(pre.rows[r][i])
                            THEN ClaimedFill(pre.dtype[i], Column(pre, i))
                            ELSE pre.rows[r][i]

(***************************************************************************)
(* Properties of a training run (SpecTrain).                               *)
(***************************************************************************)
HasDataset == tpc \notin {"off", "read"} /\ ~(tpc = "error" /\ dataset = NoDataset)
TargetColumn == Column(dataset.training_df,
                       ColIndex(dataset.training_df, "ideal_incentive_program"))

\* C6: a run whose training table is empty or has fewer than 2 classes ends
\* in an error, and a run that ends in an error has written neither file.
C6_DegenerateFails ==
    /\ (HasDataset /\ DistinctCount(TargetColumn) < 2) =>
          tpc # "done" /\ files = {}
    /\ tpc = "error" => files = {}
    /\ "incentive_recommender.joblib" \in files => tpc \in {"metrics", "done"}

\* C8: the incentive-context feature of the training table is global: every
\* row carries the same value, whatever its label.
C8_IncentiveContextGlobal ==
    HasDataset =>
        LET df == dataset.training_df
            ai == ColIndex(df, "avg_program_incentive_amount")
        IN  \A r1, r2 \in 1..Len(df.rows) : df.rows[r1][ai] = df.rows[r2][ai]

\* C9: the training table has no missing value in any column.
C9_NoMissingInTraining ==
    HasDataset => ~HasNaN(dataset.training_df)

\* C10: the training table has one row per row of the cleaned behavior
\* table, in the same order, and the frozen feature columns are its columns
\* without the label, in table order.
C10_OneRowPerBehavior ==
    HasDataset =>
        LET df == dataset.training_df
            beh == CleanData(incentive_df, property_df, behavior_df).tables[3]
        IN  /\ Len(df.rows) = Len(beh.rows)
            /\ \A r \in 1..Len(df.rows) : \A i \in 1..Len(beh.columns) :
                  df.rows[r][i] = beh.rows[r][i]
            /\ dataset.feature_columns =
                  SeqFilter(df.columns, Range(df.columns) \ {"ideal_incentive_program"})

====
